---- MODULE Spec2Model ----
(***************************************************************************)
(* Model of the task-manager REST API: the authentication middleware       *)
(* (src/src/middleware/authMiddleware.ts), the route table                 *)
(* (src/src/server.ts), the auth handlers (src/unnamed/part_000) and the   *)
(* task handlers (src/src/routes/taskRoutes.ts).                           *)
(*                                                                         *)
(* Strings are sequences of one-character strings, so that trim(),         *)
(* toLowerCase() and the title search act on characters.  A JavaScript     *)
(* value that may be undefined is a sequence of length <= 1: <<>> is       *)
(* undefined, <<v>> is the value v.                                        *)
(***************************************************************************)
EXTENDS Integers, Sequences, FiniteSets, TLC

VARIABLES
    users,      \* the users collection: set of user documents
    tasks,      \* the tasks collection: set of task documents
    taskCount,  \* number of task documents created so far (next _id / createdAt)
    inflight,   \* register requests suspended between User.findOne and User.create
    last        \* the request handled last and what the server answered

vars == <<users, tasks, taskCount, inflight, last>>

----------------------------------------------------------------------------
(* Bounds of the model *)

\* task documents created in one behaviour
MaxTasks == 2
\* register requests suspended at the same time
MaxInflight == 2

----------------------------------------------------------------------------
(* JavaScript values *)

Undefined == <<>>
Some(v) == <<v>>
IsDef(o) == Len(o) > 0
Val(o) == o[1]

\* truthiness of an optional string: undefined and "" are falsy
Truthy(o) == IsDef(o) /\ Len(Val(o)) > 0

UpperCase == <<"A","B","C","D","E","F","G","H","I","J","K","L","M",
               "N","O","P","Q","R","S","T","U","V","W","X","Y","Z">>
LowerCase == <<"a","b","c","d","e","f","g","h","i","j","k","l","m",
               "n","o","p","q","r","s","t","u","v","w","x","y","z">>

LowerChar(c) ==
    IF \E i \in 1..26 : UpperCase[i] = c
    THEN LowerCase[CHOOSE i \in 1..26 : UpperCase[i] = c]
    ELSE c

\* String.prototype.toLowerCase
toLowerCase(s) == [i \in 1..Len(s) |-> LowerChar(s[i])]

RECURSIVE trimStart(_)
trimStart(s) == IF Len(s) > 0 /\ Head(s) = " " THEN trimStart(Tail(s)) ELSE s

RECURSIVE trimEnd(_)
trimEnd(s) ==
    IF Len(s) > 0 /\ s[Len(s)] = " " THEN trimEnd(SubSeq(s, 1, Len(s) - 1)) ELSE s

\* String.prototype.trim
trim(s) == trimEnd(trimStart(s))

\* a case-insensitive match of the pattern (plain characters) inside s:
\* { $regex: pattern, $options: "i" }
RegexMatchI(s, pattern) ==
    LET a == toLowerCase(s)
        p == toLowerCase(pattern)
    IN \E i \in 0..(Len(a) - Len(p)) : SubSeq(a, i + 1, i + Len(p)) = p

S_admin == <<"a","d","m","i","n">>
S_Admin == <<"A","d","m","i","n">>
S_user == <<"u","s","e","r">>
S_pending == <<"p","e","n","d","i","n","g">>
S_completed == <<"c","o","m","p","l","e","t","e","d">>
S_Completed == <<"C","o","m","p","l","e","t","e","d">>
S_done == <<"d","o","n","e">>
S_asc == <<"a","s","c">>
S_ASC == <<"A","S","C">>
S_desc == <<"d","e","s","c">>
S_createdAt == <<"c","r","e","a","t","e","d","A","t">>

----------------------------------------------------------------------------
(* Tokens: jwt.sign / jwt.verify *)

\* A token is the tuple <<"jwt", id, role, signature, expiry>>; <<"garbage">> is a
\* string that is no JWT and <<>> is the empty string.
generateToken(userId, role) == <<"jwt", userId, role, "good", "live">>

\* the same token after its 7 days
Aged(tok) == <<tok[1], tok[2], tok[3], tok[4], "expired">>
\* the same token with its payload or signature altered
Tampered(tok) == <<tok[1], tok[2], tok[3], "bad", tok[5]>>

\* jwt.verify: the payload, or the class of the error thrown.  libFault is a
\* failure inside the library that is no JsonWebTokenError.
jwtVerify(tok, libFault) ==
    IF libFault THEN [ok |-> FALSE, error |-> "Error", payload |-> Undefined]
    ELSE IF tok[1] # "jwt" \/ tok[4] # "good"
    THEN [ok |-> FALSE, error |-> "JsonWebTokenError", payload |-> Undefined]
    ELSE IF tok[5] # "live"
    THEN [ok |-> FALSE, error |-> "TokenExpiredError", payload |-> Undefined]
    ELSE [ok |-> TRUE, error |-> "", payload |-> Some([id |-> tok[2], role |-> tok[3]])]

----------------------------------------------------------------------------
(* Requests.  authorization is the Authorization header split at " ": a      *)
(* sequence of parts; cookieToken is the token cookie the client sent;       *)
(* bodyToken is the token field of the JSON body.                            *)

S_Bearer == <<"Bearer">>

NoAuth == [authorization |-> Undefined, cookieToken |-> Undefined, bodyToken |-> Undefined]
Bearer(tok) == [authorization |-> Some(<<S_Bearer, tok>>), cookieToken |-> Undefined,
                bodyToken |-> Undefined]

\* req.cookies: server.ts installs express.json() and cors() only, no cookie
\* parser, so req.cookies is never populated.
reqCookies(req) == Undefined

\* req.headers.authorization?.split(" ")[1]
headerToken(req) ==
    IF IsDef(req.authorization) /\ Len(Val(req.authorization)) >= 2
    THEN Some(Val(req.authorization)[2])
    ELSE Undefined

\* a || b || c over optional strings
Or3(a, b, c) == IF Truthy(a) THEN a ELSE IF Truthy(b) THEN b ELSE c

extractToken(req) ==
    Or3(headerToken(req),
        IF IsDef(reqCookies(req)) THEN Val(reqCookies(req)).token ELSE Undefined,
        req.bodyToken)

authMiddlewareExpiredAs403(req, libFault) ==
    LET token == extractToken(req) IN
    IF ~Truthy(token)
    THEN [status |-> 401, message |-> "No token provided", user |-> Undefined, next |-> FALSE]
    ELSE LET v == jwtVerify(Val(token), libFault) IN
         IF v.ok
         THEN [status |-> 0, message |-> "", user |-> v.payload, next |-> TRUE]
         ELSE IF v.error \in {"JsonWebTokenError", "TokenExpiredError"}
         THEN [status |-> 403, message |-> "Invalid token", user |-> Undefined, next |-> FALSE]
         ELSE [status |-> 500, message |-> "Authentication error", user |-> Undefined,
               next |-> FALSE]

\* authMiddleware: the response it sends (status 0: none), the identity it
\* attaches to req.user and whether it calls next()
authMiddleware(req, libFault) ==
    LET token == extractToken(req) IN
    IF ~Truthy(token)
    THEN [status |-> 401, message |-> "No token provided", user |-> Undefined, next |-> FALSE]
    ELSE LET v == jwtVerify(Val(token), libFault) IN
         IF v.ok
         THEN [status |-> 0, message |-> "", user |-> v.payload, next |-> TRUE]
         ELSE IF v.error = "TokenExpiredError"
         THEN [status |-> 401, message |-> "Token has expired", user |-> Undefined,
               next |-> FALSE]
         ELSE IF v.error = "JsonWebTokenError"
         THEN [status |-> 403, message |-> "Invalid token", user |-> Undefined, next |-> FALSE]
         ELSE [status |-> 500, message |-> "Authentication error", user |-> Undefined,
               next |-> FALSE]

isAdminMiddlewareInverted(user) ==
    IF IsDef(user) /\ Val(user).role = S_admin
    THEN [status |-> 403, message |-> "Access denied. Admins only.", next |-> FALSE]
    ELSE [status |-> 0, message |-> "", next |-> TRUE]

\* isAdminMiddleware: req.user?.role !== "admin" -> 403
isAdminMiddleware(user) ==
    IF ~IsDef(user) \/ Val(user).role # S_admin
    THEN [status |-> 403, message |-> "Access denied. Admins only.", next |-> FALSE]
    ELSE [status |-> 0, message |-> "", next |-> TRUE]

----------------------------------------------------------------------------
(* Numbers.  A JavaScript number is NaN, +Infinity, -Infinity or a finite    *)
(* value counted in halves (h = 5 is 2.5), which is enough for Math.floor    *)
(* to have something to do.                                                  *)

NaN == [k |-> "nan", h |-> 0]
PosInf == [k |-> "inf", h |-> 0]
NegInf == [k |-> "ninf", h |-> 0]
Num(n) == [k |-> "num", h |-> 2 * n]
Halves(h) == [k |-> "num", h |-> h]

DefaultPage == 1
DefaultLimit == 10
MaxLimit == 100

\* Number(s) for the query strings of the model
NumberOf(s) ==
    CASE s = "" -> Num(0)
      [] s = "0" -> Num(0)
      [] s = "1" -> Num(1)
      [] s = "2" -> Num(2)
      [] s = "3" -> Num(3)
      [] s = "-5" -> Num(-5)
      [] s = "0.5" -> Halves(1)
      [] s = "2.5" -> Halves(5)
      [] s = "-0.5" -> Halves(-1)
      [] s = "100" -> Num(100)
      [] s = "100.5" -> Halves(201)
      [] s = "101" -> Num(101)
      [] s = "500" -> Num(500)
      [] s = "Infinity" -> PosInf
      [] s = "1e999" -> PosInf
      [] s = "-Infinity" -> NegInf
      [] OTHER -> NaN

\* Number(q ?? dflt)
NumberOrDefault(q, dflt) == IF IsDef(q) THEN NumberOf(Val(q)) ELSE Num(dflt)

IsNaN(x) == x.k = "nan"
\* x < n for an integer n; NaN compares false
LessThan(x, n) == x.k = "ninf" \/ (x.k = "num" /\ x.h < 2 * n)
\* Math.floor
MathFloor(x) == IF x.k = "num" THEN [k |-> "num", h |-> 2 * (x.h \div 2)] ELSE x
\* Math.min(x, n) for an integer n and x not NaN
MathMin(x, n) ==
    IF x.k = "inf" THEN Num(n)
    ELSE IF x.k = "ninf" THEN x
    ELSE IF x.h < 2 * n THEN x ELSE Num(n)

IsInteger(x) == x.k = "num" /\ x.h % 2 = 0
IntVal(x) == x.h \div 2

\* parsePaginationParams
parsePaginationParams(query) ==
    LET rawPage == NumberOrDefault(query.page, DefaultPage)
        rawLimit == NumberOrDefault(query.limit, DefaultLimit)
    IN [page |-> IF IsNaN(rawPage) \/ LessThan(rawPage, 1) THEN Num(1) ELSE MathFloor(rawPage),
        limit |-> IF IsNaN(rawLimit) \/ LessThan(rawLimit, 1) THEN Num(DefaultLimit)
                  ELSE MathMin(MathFloor(rawLimit), MaxLimit)]

\* const skip = (page - 1) * limit, for a positive integer limit
skipOf(page, limit) ==
    IF page.k = "num" THEN Halves((page.h - 2) * IntVal(limit)) ELSE page

----------------------------------------------------------------------------
(* Documents and identifiers *)

\* A request's :taskId is a well-formed ObjectId (naming document n) or a
\* string that is none ("not-an-id").
ObjectId(n) == [wellFormed |-> TRUE, n |-> n]
NotAnId == [wellFormed |-> FALSE, n |-> 0]

\* mongoose.Types.ObjectId.isValid
isValid(id) == id.wellFormed

\* the pre-save hook of the User model stores a one-way hash of the password
Hashed(pw) == <<"hash", pw>>
\* user.comparePassword
comparePassword(user, candidate) == user.password = Hashed(candidate)

\* the role a new user document gets: the schema default when none is given
roleOf(body) == IF Truthy(body.role) THEN toLowerCase(Val(body.role)) ELSE S_user

\* User.findOne({ $or: [{ email }, { username }] })
findUserByEmailOrUsername(U, email, username) ==
    {u \in U : u.email = email \/ u.username = username}

\* User.findOne({ email })
findUserByEmail(U, email) == {u \in U : u.email = email}

\* The unique indexes of the users collection on email and on username:
\* User.create rejects with a duplicate-key error when either is taken.
duplicateKey(U, email, username) ==
    \E u \in U : u.email = email \/ u.username = username

newUserDoc(U, body) ==
    [id |-> Cardinality(U) + 1,
     username |-> Val(body.username),
     email |-> Val(body.email),
     password |-> Hashed(Val(body.password)),
     role |-> roleOf(body)]

\* the data object of the register and login responses
authData(u) ==
    [id |-> u.id, username |-> u.username, email |-> u.email, role |-> u.role,
     token |-> generateToken(u.id, u.role)]

\* a handler's answer: status 0 means the handler sent no response; escaped
\* means an error left the handler uncaught
Answer(status, message, data) ==
    [status |-> status, message |-> message, data |-> data, escaped |-> FALSE]
Escaped == [status |-> 0, message |-> "", data |-> <<>>, escaped |-> TRUE]

----------------------------------------------------------------------------
(* registerUser and loginUser (no try/catch around their awaits) *)

\* registerUser up to and including the existence check.  suspend: the
\* handler goes on to User.create.
registerCheck(body, U, dbFail) ==
    IF ~Truthy(body.username) \/ ~Truthy(body.email) \/ ~Truthy(body.password)
    THEN [suspend |-> FALSE,
          answer |-> Answer(400, "Please provide username, email, and password.", <<>>)]
    ELSE IF dbFail
    THEN [suspend |-> FALSE, answer |-> Escaped]
    ELSE IF findUserByEmailOrUsername(U, Val(body.email), Val(body.username)) # {}
    THEN [suspend |-> FALSE,
          answer |-> Answer(409, "User already exists with this email or username.", <<>>)]
    ELSE [suspend |-> TRUE, answer |-> Answer(0, "", <<>>)]

\* registerUser from User.create on
registerCreate(body, U, dbFail) ==
    IF dbFail \/ duplicateKey(U, Val(body.email), Val(body.username))
    THEN [users |-> U, answer |-> Escaped]
    ELSE LET u == newUserDoc(U, body) IN
         [users |-> U \cup {u},
          answer |-> Answer(201, "User registered successfully.", <<authData(u)>>)]

\* registerUser run without another request in between.  failAt: the store
\* call that fails ("none", "findOne", "create").
registerUser(body, U, failAt) ==
    LET c == registerCheck(body, U, failAt = "findOne") IN
    IF ~c.suspend THEN [users |-> U, answer |-> c.answer]
    ELSE registerCreate(body, U, failAt = "create")

loginUser(body, U, dbFail) ==
    IF ~Truthy(body.email) \/ ~Truthy(body.password)
    THEN Answer(400, "Please provide email and password.", <<>>)
    ELSE IF dbFail THEN Escaped
    ELSE LET found == findUserByEmail(U, Val(body.email)) IN
         IF found = {} THEN Answer(401, "Invalid email or password.", <<>>)
         ELSE LET user == CHOOSE u \in found : TRUE IN
              IF ~comparePassword(user, Val(body.password))
              THEN Answer(401, "Invalid email or password.", <<>>)
              ELSE Answer(200, "Login successful.", <<authData(user)>>)

----------------------------------------------------------------------------
(* Task handlers (each body is inside try/catch) *)

\* a handler's answer and the tasks collection it leaves
Result(T, status, message, data) ==
    [tasks |-> T, status |-> status, message |-> message, data |-> data,
     meta |-> <<>>, escaped |-> FALSE]

newTaskDoc(cnt, userId, body) ==
    [id |-> cnt + 1,
     title |-> trim(Val(body.title)),
     description |-> IF Truthy(body.description) /\ Len(trim(Val(body.description))) > 0
                     THEN trim(Val(body.description)) ELSE <<>>,
     status |-> IF Truthy(body.status) THEN Val(body.status) ELSE S_pending,
     createdBy |-> userId,
     createdAt |-> cnt + 1]

createTask(userId, body, T, cnt, dbFail) ==
    IF ~Truthy(body.title) \/ trim(Val(body.title)) = <<>>
    THEN Result(T, 400, "Title is required to create a task.", <<>>)
    ELSE IF dbFail
    THEN Result(T, 500, "Internal server error while creating task.", <<>>)
    ELSE LET t == newTaskDoc(cnt, userId, body) IN
         Result(T \cup {t}, 201, "Task created successfully.", <<t>>)

\* .populate("createdBy", "username email")
populate(t, U) ==
    LET owner == CHOOSE u \in U : u.id = t.createdBy IN
    [id |-> t.id, title |-> t.title, description |-> t.description, status |-> t.status,
     createdBy |-> [id |-> owner.id, username |-> owner.username, email |-> owner.email],
     createdAt |-> t.createdAt]

\* the documents of S in ascending createdAt
byCreatedAt(S, cnt) ==
    LET at == SelectSeq([i \in 1..cnt |-> i], LAMBDA i : \E t \in S : t.createdAt = i)
    IN [j \in 1..Len(at) |-> CHOOSE t \in S : t.createdAt = at[j]]

Reverse(q) == [j \in 1..Len(q) |-> q[Len(q) + 1 - j]]

\* .sort({createdAt: dir}).skip(skip).limit(limit)
sortSkipLimit(S, cnt, dir, skip, limit) ==
    LET asc == byCreatedAt(S, cnt)
        ordered == IF dir = 1 THEN asc ELSE Reverse(asc)
    IN SubSeq(ordered, skip + 1, IF skip + limit < Len(ordered) THEN skip + limit
                                  ELSE Len(ordered))

\* sortDir.toLowerCase() === "asc" ? 1 : -1, with the defaults of
\* const [sortField = "createdAt", sortDir = "desc"] = sortParam.split(":")
sortDirection(sort) ==
    LET parts == IF IsDef(sort) THEN Val(sort) ELSE <<S_createdAt, S_desc>>
        sortDir == IF Len(parts) >= 2 THEN parts[2] ELSE S_desc
    IN IF toLowerCase(sortDir) = S_asc THEN 1 ELSE -1

\* Math.max(1, Math.ceil(total / limit))
totalPagesOf(total, limit) ==
    LET c == (total + limit - 1) \div limit IN IF c < 1 THEN 1 ELSE c

\* the filter of getAllTasks: the title search alone
allTasksFilter(t, search) == search = <<>> \/ RegexMatchI(t.title, search)

\* the filter of getTasks (exported, mounted on no route): the caller's tasks
ownTasksFilter(t, userId, search) ==
    t.createdBy = userId /\ (search = <<>> \/ RegexMatchI(t.title, search))

\* getAllTasks, the handler of GET /api/v1/tasks
getAllTasks(query, T, U, cnt, dbFail) ==
    LET pl == parsePaginationParams(query)
        page == IntVal(pl.page)
        limit == IntVal(pl.limit)
        search == IF IsDef(query.search) THEN trim(Val(query.search)) ELSE <<>>
        dir == sortDirection(query.sort)
        skip == IntVal(skipOf(pl.page, pl.limit))
        matching == {t \in T : allTasksFilter(t, search)}
        total == Cardinality(matching)
        found == sortSkipLimit(matching, cnt, dir, skip, limit)
    IN IF dbFail
       THEN Result(T, 500, "Internal server error while fetching tasks.", <<>>)
       ELSE [tasks |-> T, status |-> 200, message |-> "Tasks fetched successfully.",
             data |-> [j \in 1..Len(found) |-> populate(found[j], U)],
             meta |-> <<page, limit, total, totalPagesOf(total, limit)>>,
             escaped |-> FALSE]

ownedTaskFilterIdOnly(t, taskId, userId) == t.id = taskId.n

\* { _id: ObjectId(taskId), createdBy: ObjectId(userId) }
ownedTaskFilter(t, taskId, userId) == t.id = taskId.n /\ t.createdBy = userId

getTaskById(userId, taskId, T, U, dbFail) ==
    IF ~isValid(taskId) THEN Result(T, 400, "Invalid task ID format.", <<>>)
    ELSE IF dbFail THEN Result(T, 500, "Internal server error while fetching task.", <<>>)
    ELSE LET found == {t \in T : ownedTaskFilter(t, taskId, userId)} IN
         IF found = {}
         THEN Result(T, 404, "Task not found or you don't have permission to view it.", <<>>)
         ELSE Result(T, 200, "Task fetched successfully.",
                     <<populate(CHOOSE t \in found : TRUE, U)>>)

\* ["pending", "completed"].includes(status)
statusAllowed(status) == status \in {S_pending, S_completed}

updateFieldsAsCreate(task, body) ==
    [task EXCEPT
        !.title = IF Truthy(body.title) THEN trim(Val(body.title)) ELSE @,
        !.description = IF Truthy(body.description) THEN trim(Val(body.description))
                        ELSE <<>>,
        !.status = IF Truthy(body.status) THEN toLowerCase(Val(body.status)) ELSE S_pending]

\* if (title) task.title = title.trim(); ... description ...; status.toLowerCase()
updateFields(task, body) ==
    [task EXCEPT
        !.title = IF Truthy(body.title) THEN trim(Val(body.title)) ELSE @,
        !.description = IF Truthy(body.description) THEN trim(Val(body.description)) ELSE @,
        !.status = IF Truthy(body.status) THEN toLowerCase(Val(body.status)) ELSE @]

updateTask(userId, taskId, body, T, dbFail) ==
    IF ~isValid(taskId) THEN Result(T, 400, "Invalid task ID format.", <<>>)
    ELSE IF ~Truthy(body.title) /\ ~Truthy(body.description) /\ ~Truthy(body.status)
    THEN Result(T, 400, "Please provide at least one field to update", <<>>)
    ELSE IF Truthy(body.status) /\ ~statusAllowed(Val(body.status))
    THEN Result(T, 400, "Status must be either 'pending' or 'completed'.", <<>>)
    ELSE IF dbFail THEN Result(T, 500, "Internal server error while updating task.", <<>>)
    ELSE LET found == {t \in T : ownedTaskFilter(t, taskId, userId)} IN
         IF found = {}
         THEN Result(T, 404, "Task not found or you don't have permission to update it.",
                     <<>>)
         ELSE LET task == CHOOSE t \in found : TRUE
                  updated == updateFields(task, body)
              IN Result((T \ {task}) \cup {updated}, 200, "Task updated successfully.",
                        <<updated>>)

\* Task.findOneAndDelete({ _id }) : no owner in the filter
deleteTask(taskId, T, dbFail) ==
    IF ~isValid(taskId) THEN Result(T, 400, "Invalid task ID format.", <<>>)
    ELSE IF dbFail THEN Result(T, 500, "Internal server error while deleting task.", <<>>)
    ELSE LET found == {t \in T : t.id = taskId.n} IN
         IF found = {}
         THEN Result(T, 404, "Task not found or you don't have permission to delete it.",
                     <<>>)
         ELSE Result(T \ found, 200, "Task deleted successfully.",
                     <<CHOOSE t \in found : TRUE>>)

----------------------------------------------------------------------------
(* The route table of server.ts: the middleware in front of each handler *)

\* authMiddleware, then isAdminMiddleware on the routes that mount it:
\* whether the handler is reached, the response sent when it is not, the
\* identity attached to the request and the stages that ran
gate(req, adminOnly, libFault) ==
    LET a == authMiddleware(req, libFault) IN
    IF ~a.next
    THEN [pass |-> FALSE, status |-> a.status, message |-> a.message, user |-> a.user,
          stages |-> <<"authMiddleware">>]
    ELSE IF ~adminOnly
    THEN [pass |-> TRUE, status |-> 0, message |-> "", user |-> a.user,
          stages |-> <<"authMiddleware">>]
    ELSE LET b == isAdminMiddleware(a.user) IN
         [pass |-> b.next, status |-> b.status, message |-> b.message, user |-> a.user,
          stages |-> <<"authMiddleware", "isAdminMiddleware">>]

\* the routes behind authMiddleware and whether isAdminMiddleware is mounted
ProtectedRoutes ==
    {[handler |-> "createTask", adminOnly |-> FALSE],
     [handler |-> "getAllTasks", adminOnly |-> FALSE],
     [handler |-> "getTaskById", adminOnly |-> FALSE],
     [handler |-> "updateTask", adminOnly |-> FALSE],
     [handler |-> "deleteTask", adminOnly |-> TRUE]}

----------------------------------------------------------------------------
(* Inputs of the model *)

S_u1 == <<"u","1">>
S_u2 == <<"u","2">>
S_a == <<"a","@","x">>
S_b == <<"b","@","x">>
S_pw1 == <<"p","w","1">>
S_pw2 == <<"p","w","2">>

NoBody == [title |-> Undefined, description |-> Undefined, status |-> Undefined]
NoQuery == [page |-> Undefined, limit |-> Undefined, search |-> Undefined, sort |-> Undefined]

\* register bodies of the task specification: a user, an admin (role sent as
\* "Admin"), a body colliding with both, and one with no password
RegisterBodies ==
    {[username |-> Some(S_u1), email |-> Some(S_a), password |-> Some(S_pw1),
      role |-> Undefined],
     [username |-> Some(S_u2), email |-> Some(S_b), password |-> Some(S_pw1),
      role |-> Some(S_Admin)],
     [username |-> Some(S_u1), email |-> Some(S_b), password |-> Some(S_pw1),
      role |-> Undefined],
     [username |-> Some(S_u2), email |-> Some(S_a), password |-> Undefined,
      role |-> Undefined]}

\* register bodies of the registration specification
AllRegisterBodies ==
    [username : {Some(S_u1), Some(S_u2)}, email : {Some(S_a), Some(S_b)},
     password : {Some(S_pw1)}, role : {Undefined, Some(S_Admin)}]
    \cup {[username |-> Some(<<>>), email |-> Some(S_a), password |-> Some(S_pw1),
           role |-> Undefined]}

LoginBodies ==
    [email : {Some(S_a), Some(S_b)}, password : {Some(S_pw1), Some(S_pw2)}]
    \cup {[email |-> Some(S_a), password |-> Undefined]}

\* what a client of the task specification sends to a protected route: nothing,
\* the token register/login gave to one of the users, or a forged admin token
ClientAuth(U) ==
    {NoAuth, Bearer(Tampered(generateToken(1, S_admin)))}
    \cup {Bearer(generateToken(u.id, u.role)) : u \in U}

\* create bodies: a valid one, a title that is blank after trimming, no title
CreateBodies ==
    {[title |-> Some(<<" ","a"," ">>), description |-> Some(<<" ","d">>),
      status |-> Undefined],
     [title |-> Some(<<" ">>), description |-> Undefined, status |-> Undefined],
     NoBody}

\* update bodies: nothing, a status alone (valid, capitalised, invalid), title
\* and description, and fields supplied as the empty string
UpdateBodies ==
    {NoBody,
     [title |-> Undefined, description |-> Undefined, status |-> Some(S_completed)],
     [title |-> Undefined, description |-> Undefined, status |-> Some(S_Completed)],
     [title |-> Undefined, description |-> Undefined, status |-> Some(S_done)],
     [title |-> Some(<<" ","b">>), description |-> Some(<<"e"," ">>), status |-> Undefined],
     [title |-> Some(<<>>), description |-> Undefined, status |-> Some(S_pending)],
     [title |-> Some(<<>>), description |-> Some(<<>>), status |-> Some(<<>>)]}

ListQueries ==
    [page : {Undefined, Some("2")}, limit : {Undefined, Some("1")},
     search : {Undefined, Some(<<"A"," ">>)},
     sort : {Undefined, Some(<<S_createdAt, S_ASC>>)}]

TaskIds == {NotAnId} \cup {ObjectId(n) : n \in 1..MaxTasks}

----------------------------------------------------------------------------
(* The task specification: every route of server.ts, one request at a time *)

Idle ==
    [op |-> "none", req |-> NoAuth, taskId |-> NotAnId, body |-> NoBody, query |-> NoQuery,
     dbFail |-> FALSE, libFault |-> FALSE, user |-> Undefined, stages |-> <<>>,
     status |-> 0, message |-> "", data |-> <<>>, meta |-> <<>>, escaped |-> FALSE]

Init ==
    /\ users = {}
    /\ tasks = {}
    /\ taskCount = 0
    /\ inflight = <<>>
    /\ last = Idle

\* the record of a request the middleware rejected
Rejected(op, req, g, taskId, body, query) ==
    [Idle EXCEPT !.op = op, !.req = req, !.taskId = taskId, !.body = body,
                 !.query = query, !.user = g.user, !.stages = g.stages,
                 !.status = g.status, !.message = g.message]

\* the record of a request its handler answered with r
Handled(op, req, g, taskId, body, query, dbFail, r) ==
    [op |-> op, req |-> req, taskId |-> taskId, body |-> body, query |-> query,
     dbFail |-> dbFail, libFault |-> FALSE, user |-> g.user,
     stages |-> Append(g.stages, op),
     status |-> r.status, message |-> r.message, data |-> r.data, meta |-> r.meta,
     escaped |-> r.escaped]

\* The response of the request handled last has been sent and the request is
\* over: the server is ready for the next one.
Deliver ==
    /\ last.op # "none"
    /\ last' = Idle
    /\ UNCHANGED <<users, tasks, taskCount, inflight>>

\* POST /api/v1/auth/register.  An error that leaves the handler is either
\* never answered or answered by the framework's own error handler.
Register ==
    /\ last.op = "none"
    /\ \E body \in RegisterBodies, failAt \in {"none", "findOne", "create"},
          frameworkAnswers \in BOOLEAN :
        LET r == registerUser(body, users, failAt) IN
        /\ (~r.answer.escaped => ~frameworkAnswers)
        /\ users' = r.users
        /\ last' = [Idle EXCEPT !.op = "registerUser", !.body = body,
                                !.dbFail = (failAt # "none"),
                                !.stages = <<"registerUser">>,
                                !.status = IF frameworkAnswers THEN 500 ELSE r.answer.status,
                                !.message = r.answer.message,
                                !.data = r.answer.data,
                                !.escaped = r.answer.escaped]
        /\ UNCHANGED <<tasks, taskCount, inflight>>

\* POST /api/v1/auth/login
Login ==
    /\ last.op = "none"
    /\ \E body \in LoginBodies, dbFail \in BOOLEAN, frameworkAnswers \in BOOLEAN :
        LET r == loginUser(body, users, dbFail) IN
        /\ (~r.escaped => ~frameworkAnswers)
        /\ last' = [Idle EXCEPT !.op = "loginUser", !.body = body, !.dbFail = dbFail,
                                !.stages = <<"loginUser">>,
                                !.status = IF frameworkAnswers THEN 500 ELSE r.status,
                                !.message = r.message,
                                !.data = r.data,
                                !.escaped = r.escaped]
        /\ UNCHANGED <<users, tasks, taskCount, inflight>>

\* POST /api/v1/tasks
CreateTask ==
    /\ last.op = "none"
    /\ \E req \in ClientAuth(users), body \in CreateBodies, dbFail \in BOOLEAN :
        LET g == gate(req, FALSE, FALSE) IN
        IF ~g.pass
        THEN /\ last' = Rejected("createTask", req, g, NotAnId, body, NoQuery)
             /\ UNCHANGED <<users, tasks, taskCount, inflight>>
        ELSE LET r == createTask(Val(g.user).id, body, tasks, taskCount, dbFail) IN
             /\ r.status = 201 => taskCount < MaxTasks
             /\ tasks' = r.tasks
             /\ taskCount' = IF r.status = 201 THEN taskCount + 1 ELSE taskCount
             /\ last' = Handled("createTask", req, g, NotAnId, body, NoQuery, dbFail, r)
             /\ UNCHANGED <<users, inflight>>

\* GET /api/v1/tasks
ListTasks ==
    /\ last.op = "none"
    /\ \E req \in ClientAuth(users), query \in ListQueries, dbFail \in BOOLEAN :
        LET g == gate(req, FALSE, FALSE) IN
        IF ~g.pass
        THEN /\ last' = Rejected("getAllTasks", req, g, NotAnId, NoBody, query)
             /\ UNCHANGED <<users, tasks, taskCount, inflight>>
        ELSE LET r == getAllTasks(query, tasks, users, taskCount, dbFail) IN
             /\ last' = Handled("getAllTasks", req, g, NotAnId, NoBody, query, dbFail, r)
             /\ UNCHANGED <<users, tasks, taskCount, inflight>>

\* GET /api/v1/tasks/:taskId
GetTask ==
    /\ last.op = "none"
    /\ \E req \in ClientAuth(users), taskId \in TaskIds, dbFail \in BOOLEAN :
        LET g == gate(req, FALSE, FALSE) IN
        IF ~g.pass
        THEN /\ last' = Rejected("getTaskById", req, g, taskId, NoBody, NoQuery)
             /\ UNCHANGED <<users, tasks, taskCount, inflight>>
        ELSE LET r == getTaskById(Val(g.user).id, taskId, tasks, users, dbFail) IN
             /\ last' = Handled("getTaskById", req, g, taskId, NoBody, NoQuery, dbFail, r)
             /\ UNCHANGED <<users, tasks, taskCount, inflight>>

\* PUT /api/v1/tasks/:taskId
UpdateTask ==
    /\ last.op = "none"
    /\ \E req \in ClientAuth(users), taskId \in TaskIds, body \in UpdateBodies,
          dbFail \in BOOLEAN :
        LET g == gate(req, FALSE, FALSE) IN
        IF ~g.pass
        THEN /\ last' = Rejected("updateTask", req, g, taskId, body, NoQuery)
             /\ UNCHANGED <<users, tasks, taskCount, inflight>>
        ELSE LET r == updateTask(Val(g.user).id, taskId, body, tasks, dbFail) IN
             /\ tasks' = r.tasks
             /\ last' = Handled("updateTask", req, g, taskId, body, NoQuery, dbFail, r)
             /\ UNCHANGED <<users, taskCount, inflight>>

\* DELETE /api/v1/tasks/:taskId
DeleteTask ==
    /\ last.op = "none"
    /\ \E req \in ClientAuth(users), taskId \in TaskIds, dbFail \in BOOLEAN :
        LET g == gate(req, TRUE, FALSE) IN
        IF ~g.pass
        THEN /\ last' = Rejected("deleteTask", req, g, taskId, NoBody, NoQuery)
             /\ UNCHANGED <<users, tasks, taskCount, inflight>>
        ELSE LET r == deleteTask(taskId, tasks, dbFail) IN
             /\ tasks' = r.tasks
             /\ last' = Handled("deleteTask", req, g, taskId, NoBody, NoQuery, dbFail, r)
             /\ UNCHANGED <<users, taskCount, inflight>>

Next ==
    \/ Register
    \/ Login
    \/ CreateTask
    \/ ListTasks
    \/ GetTask
    \/ UpdateTask
    \/ DeleteTask
    \/ Deliver

Spec == Init /\ [][Next]_vars

----------------------------------------------------------------------------
(* The middleware specification: one request to a protected route, with the  *)
(* token in any of its three transports, up to the handler.                  *)

\* tokens a client may present: the tokens of a user and of an admin, an
\* expired one, one with a bad signature, and a string that is no token
TokenPool ==
    {generateToken(1, S_user), generateToken(2, S_admin), Aged(generateToken(1, S_user)),
     Tampered(generateToken(1, S_admin)), Aged(Tampered(generateToken(1, S_admin))),
     <<"garbage">>}

AuthRequests ==
    [authorization : {Undefined, Some(<<S_Bearer>>)}
                     \cup {Some(<<S_Bearer, t>>) : t \in TokenPool}
                     \cup {Some(<<t>>) : t \in TokenPool},
     cookieToken : {Undefined} \cup {Some(t) : t \in TokenPool},
     bodyToken : {Undefined, Some(<<>>)} \cup {Some(t) : t \in TokenPool}]

\* a request to a protected route runs the route's middleware; the handler,
\* when reached, is recorded as the last stage (its answer is not modelled here)
ProtectedRequest ==
    /\ last.op = "none"
    /\ \E route \in ProtectedRoutes, req \in AuthRequests, libFault \in BOOLEAN :
        LET g == gate(req, route.adminOnly, libFault) IN
        /\ last' = [Idle EXCEPT !.op = route.handler, !.req = req, !.libFault = libFault,
                                !.user = g.user,
                                !.stages = IF g.pass THEN Append(g.stages, route.handler)
                                           ELSE g.stages,
                                !.status = g.status, !.message = g.message]
        /\ UNCHANGED <<users, tasks, taskCount, inflight>>

NextAuth ==
    \/ ProtectedRequest
    \/ Deliver

SpecAuth == Init /\ [][NextAuth]_vars

----------------------------------------------------------------------------
(* The pagination specification: parsePaginationParams on every pair of      *)
(* page and limit query values.                                              *)

QueryValues ==
    {Undefined} \cup
    {Some(v) : v \in {"", "abc", "0", "1", "2", "3", "-5", "0.5", "2.5", "-0.5", "100",
                      "100.5", "101", "500", "Infinity", "1e999", "-Infinity"}}

ParseQuery ==
    /\ last.op = "none"
    /\ \E page \in QueryValues, limit \in QueryValues :
        LET query == [NoQuery EXCEPT !.page = page, !.limit = limit]
            pl == parsePaginationParams(query)
        IN /\ last' = [Idle EXCEPT !.op = "parsePaginationParams", !.query = query,
                                   !.meta = <<pl.page, pl.limit, skipOf(pl.page, pl.limit)>>]
           /\ UNCHANGED <<users, tasks, taskCount, inflight>>

NextPage ==
    \/ ParseQuery
    \/ Deliver

SpecPage == Init /\ [][NextPage]_vars

----------------------------------------------------------------------------
(* The registration specification: register requests interleave at their     *)
(* awaits (User.findOne, User.create); login requests run in between.        *)

\* a register request arrives and runs up to its existence check
RegisterBegin ==
    /\ last.op = "none"
    /\ \E body \in AllRegisterBodies :
        LET c == registerCheck(body, users, FALSE) IN
        IF c.suspend
        THEN /\ Len(inflight) < MaxInflight
             /\ inflight' = Append(inflight, body)
             /\ UNCHANGED <<users, tasks, taskCount, last>>
        ELSE /\ last' = [Idle EXCEPT !.op = "registerUser", !.body = body,
                                     !.stages = <<"registerUser">>,
                                     !.status = c.answer.status,
                                     !.message = c.answer.message]
             /\ UNCHANGED <<users, tasks, taskCount, inflight>>

\* a suspended register request resumes at User.create
RegisterCreate ==
    /\ last.op = "none"
    /\ \E i \in 1..Len(inflight), frameworkAnswers \in BOOLEAN :
        LET body == inflight[i]
            r == registerCreate(body, users, FALSE)
        IN /\ (~r.answer.escaped => ~frameworkAnswers)
           /\ users' = r.users
           /\ inflight' = [j \in 1..(Len(inflight) - 1) |->
                              IF j < i THEN inflight[j] ELSE inflight[j + 1]]
           /\ last' = [Idle EXCEPT !.op = "registerUser", !.body = body,
                                   !.stages = <<"registerUser">>,
                                   !.status = IF frameworkAnswers THEN 500
                                              ELSE r.answer.status,
                                   !.message = r.answer.message,
                                   !.data = r.answer.data,
                                   !.escaped = r.answer.escaped]
           /\ UNCHANGED <<tasks, taskCount>>

NextReg ==
    \/ RegisterBegin
    \/ RegisterCreate
    \/ Login
    \/ Deliver

SpecReg == Init /\ [][NextReg]_vars

----------------------------------------------------------------------------
(* Properties *)

\* what a token is, read off the token itself
WellSigned(tok) == Len(tok) = 5 /\ tok[1] = "jwt" /\ tok[4] = "good"
Genuine(tok) == WellSigned(tok) /\ tok[5] = "live"
IdentityIn(tok) == Some([id |-> tok[2], role |-> tok[3]])

\* the handler of the request recorded in rec was reached
HandlerRan(rec) == Len(rec.stages) > 0 /\ rec.stages[Len(rec.stages)] = rec.op

\* the token a client of the task specification sent (Authorization header)
SentToken(req) ==
    IF IsDef(req.authorization) /\ Len(Val(req.authorization)) = 2
    THEN Val(req.authorization)[2] ELSE <<>>

\* C1: the list GET /api/v1/tasks returns to an authenticated user holds no
\* task created by another user, whatever the page, limit, search and sort.
C1_ListHoldsOnlyOwnTasks ==
    (last.op = "getAllTasks" /\ last.status = 200)
        => \A i \in 1..Len(last.data) : last.data[i].createdBy.id = Val(last.user).id

UpdateBodyAccepted(body) ==
    /\ Truthy(body.title) \/ Truthy(body.description) \/ Truthy(body.status)
    /\ Truthy(body.status) => Val(body.status) \in {S_pending, S_completed}

\* C3: for a well-formed taskId, getTaskById and updateTask by a user who is
\* not the task's owner answer exactly as they do when the task does not exist
\* (404 once the request passes validation and the store answers) and leave
\* the stored tasks unchanged; a task is returned or modified only for the
\* caller who created it.
C3_ForeignTaskLooksAbsent ==
    [][(last'.op \in {"getTaskById", "updateTask"} /\ HandlerRan(last')
            /\ last'.taskId.wellFormed) =>
        LET me == Val(last'.user).id
            hit == {t \in tasks : t.id = last'.taskId.n}
            foreign == hit # {} /\ \A t \in hit : t.createdBy # me
            absent == IF last'.op = "getTaskById"
                      THEN getTaskById(me, last'.taskId, tasks \ hit, users, last'.dbFail)
                      ELSE updateTask(me, last'.taskId, last'.body, tasks \ hit,
                                      last'.dbFail)
        IN /\ foreign =>
                /\ tasks' = tasks
                /\ last'.status = absent.status
                /\ last'.message = absent.message
                /\ last'.data = absent.data
                /\ last'.status # 200
                /\ (~last'.dbFail
                      /\ (last'.op = "getTaskById" \/ UpdateBodyAccepted(last'.body)))
                   => last'.status = 404
           /\ (last'.status = 200 \/ tasks' # tasks)
                => \E t \in hit : t.createdBy = me
    ]_vars

\* C3 witness: an update of another user's existing task was answered 404.
C3_Witness ==
    /\ last.op = "updateTask"
    /\ last.status = 404
    /\ \E t \in tasks : t.id = last.taskId.n /\ t.createdBy # Val(last.user).id

\* C4: authMiddleware ends a request in exactly one of five ways, decided by
\* the token: none found -> 401; expired -> 401; malformed or badly signed ->
\* 403; any other verification failure -> 500; verified -> the payload's
\* {id, role} is attached and the next stage runs.  In the four rejections no
\* later stage runs and no identity is attached.
C4_AuthenticateOutcomes ==
    last.op # "none" =>
        LET token == extractToken(last.req)
            rejected == /\ last.stages = <<"authMiddleware">>
                        /\ last.user = Undefined
        IN IF ~Truthy(token)
           THEN rejected /\ last.status = 401 /\ last.message = "No token provided"
           ELSE IF last.libFault
           THEN rejected /\ last.status = 500
           ELSE IF ~WellSigned(Val(token))
           THEN rejected /\ last.status = 403 /\ last.message = "Invalid token"
           ELSE IF ~Genuine(Val(token))
           THEN rejected /\ last.status = 401 /\ last.message = "Token has expired"
           ELSE /\ last.user = IdentityIn(Val(token))
                /\ Len(last.stages) >= 2
                /\ last.stages[1] = "authMiddleware"
                /\ last.stages[2] \in {"isAdminMiddleware", last.op}
                /\ last.status \in {0, 403}
                /\ last.status = 403 => last.stages[2] = "isAdminMiddleware"

\* C4 witness: an expired token was rejected with 401 before any later stage.
C4_Witness ==
    /\ last.op = "updateTask"
    /\ Truthy(extractToken(last.req))
    /\ Val(extractToken(last.req)) = Aged(generateToken(1, S_user))
    /\ last.status = 401
    /\ last.stages = <<"authMiddleware">>

\* C5: no two stored users share an email or a username, and a register
\* request (with all fields) whose email or username is that of a stored user
\* is answered 409 and creates no user, in every interleaving of register
\* requests.
C5_RegisterUniqueOr409 ==
    [][last'.op = "registerUser" =>
        /\ \A u \in users' : \A v \in users' :
              u # v => (u.email # v.email /\ u.username # v.username)
        /\ (/\ Truthy(last'.body.username) /\ Truthy(last'.body.email)
            /\ Truthy(last'.body.password)
            /\ \E u \in users : \/ u.email = Val(last'.body.email)
                                \/ u.username = Val(last'.body.username))
           => (last'.status = 409 /\ users' = users)
    ]_vars

\* C6: a successful updateTask overwrites only fields the request supplied and
\* leaves every other field of the task (createdBy, createdAt, _id) and every
\* other task unchanged; a body of only {status: "completed"} changes the
\* status alone; a task's owner never changes.
C6_UpdateFrame ==
    [][/\ (last'.op = "updateTask" /\ last'.status = 200) =>
            \E t \in tasks : \E t2 \in tasks' :
                /\ t.id = last'.taskId.n
                /\ t2.id = t.id
                /\ tasks' \ {t2} = tasks \ {t}
                /\ last'.data = <<t2>>
                /\ t2.createdBy = t.createdBy
                /\ t2.createdAt = t.createdAt
                /\ ~IsDef(last'.body.title) => t2.title = t.title
                /\ ~IsDef(last'.body.description) => t2.description = t.description
                /\ ~IsDef(last'.body.status) => t2.status = t.status
                /\ (last'.body = [title |-> Undefined, description |-> Undefined,
                                  status |-> Some(S_completed)])
                   => t2 = [t EXCEPT !.status = S_completed]
       /\ \A t \in tasks : \A t2 \in tasks' : t2.id = t.id => t2.createdBy = t.createdBy
    ]_vars

\* C6 witness: an update of {status: "completed"} succeeded on a pending task
\* with a description while another task is stored.
C6_Witness ==
    /\ last.op = "updateTask"
    /\ last.status = 200
    /\ last.body = [title |-> Undefined, description |-> Undefined,
                    status |-> Some(S_completed)]
    /\ last.data[1].status = S_completed
    /\ last.data[1].description # <<>>
    /\ Cardinality(tasks) >= 2

\* C7: for every page and limit query value the effective page is an integer
\* >= 1 and the effective limit an integer in 1..100 (page defaults to 1, and
\* 0 or -5 give 1; limit defaults to 10 and 500 gives 100), and the offset is
\* (page - 1) * limit.
C7_EffectivePageAndLimit ==
    last.op = "parsePaginationParams" =>
        LET page == last.meta[1]
            limit == last.meta[2]
            skip == last.meta[3]
        IN /\ IsInteger(page) /\ IntVal(page) >= 1
           /\ IsInteger(limit) /\ IntVal(limit) \in 1..100
           /\ IsInteger(skip) /\ IntVal(skip) = (IntVal(page) - 1) * IntVal(limit)
           /\ last.query.page \in {Undefined, Some("abc"), Some("0"), Some("-5")}
                => IntVal(page) = 1
           /\ last.query.limit = Undefined => IntVal(limit) = 10
           /\ last.query.limit \in {Some("500"), Some("101")} => IntVal(limit) = 100
           /\ last.query.limit = Some("2.5") => IntVal(limit) = 2

\* C8: a request to a protected route with a genuine token in one of the three
\* transports (Authorization: Bearer <token>, the token cookie, the token body
\* field) is authenticated, the token being chosen header first, then cookie,
\* then body.
C8_AnyTransportAuthenticates ==
    (last.op # "none" /\ ~last.libFault) =>
        LET a == last.req.authorization
            header == IF IsDef(a) /\ Len(Val(a)) = 2 /\ Val(a)[1] = S_Bearer
                      THEN Some(Val(a)[2]) ELSE Undefined
            chosen == IF IsDef(header) THEN header
                      ELSE IF IsDef(last.req.cookieToken) THEN last.req.cookieToken
                      ELSE last.req.bodyToken
        IN (IsDef(chosen) /\ Genuine(Val(chosen))) => last.user = IdentityIn(Val(chosen))

\* C9: every request to every route is answered exactly once by its handler,
\* also when a store operation fails: the failure is caught in the handler and
\* answered 500, and no error leaves the handler.
C9_EveryRequestAnsweredByHandler ==
    last.op # "none" =>
        /\ ~last.escaped
        /\ last.status # 0
        /\ last.status \in {200, 201, 400, 401, 403, 404, 409, 500}

\* C10: updateTask accepts a supplied status exactly when its lower-cased form
\* is "pending" or "completed", and otherwise answers 400 and leaves the tasks
\* unchanged; the status a successful update stores is "pending" or
\* "completed"; an update supplying no field answers 400 and changes nothing.
C10_StatusAcceptedIffLowerCaseValid ==
    [][(last'.op = "updateTask" /\ HandlerRan(last') /\ last'.taskId.wellFormed) =>
        LET body == last'.body
            badStatus == /\ last'.status = 400
                         /\ last'.message = "Status must be either 'pending' or 'completed'."
        IN /\ Truthy(body.status) =>
                (badStatus <=> toLowerCase(Val(body.status)) \notin {S_pending, S_completed})
           /\ last'.status = 400 => tasks' = tasks
           /\ last'.status = 200 => last'.data[1].status \in {S_pending, S_completed}
           /\ (~Truthy(body.title) /\ ~Truthy(body.description) /\ ~Truthy(body.status))
                => last'.status = 400
    ]_vars

====
